---- MODULE Spec2Model ----
(***************************************************************************)
(* The master process of the stand-alone simulation runner,                *)
(* src/src/cmd/MainSA.cpp: main(), executeSimulation(), startReplicate()   *)
(* and popNextFinishedReplicate().                                         *)
(*                                                                         *)
(* Threads of the model: the master (scheduler) thread, whose position is  *)
(* pc; the signal handler thread, which sets globalAbort; one thread per   *)
(* started ReplicateRunner, which finishes with an exit code.              *)
(*                                                                         *)
(* ResourceAllocator, ReplicateRunner and WorkerManager are classes of the *)
(* repository whose code is not part of MainSA.cpp: what the master needs  *)
(* of them is modelled from the specification.                             *)
(***************************************************************************)
EXTENDS Integers, Sequences, FiniteSets, TLC

VARIABLES
    \* ---- inputs, fixed by parseArguments() and by the simulation file
    functionOption,           \* the function named on the command line
    replicates,               \* vector<int> replicates
    numberCpuCores,           \* int numberCpuCores
    cpuCoresPerReplicate,     \* cpuCoresPerReplicate
    shouldReserveOutputCore,  \* bool shouldReserveOutputCore
    cmdline_parameters,       \* vector<string> cmdline_parameters
    fileParameters,           \* what file->getParameters() returns
    \* ---- the master thread
    pc,                       \* position of the master thread
    maxSimulations,           \* int maxSimulations
    assignedSimulations,      \* int assignedSimulations
    simulationStatusTable,    \* map<int,int> simulationStatusTable
    runningReplicates,        \* list<ReplicateRunner *> runningReplicates
    noopLoopCycles,           \* unsigned long long noopLoopCycles
    simulationParameters,     \* map<string,string> simulationParameters
    paramIt,                  \* position of the iterator over cmdline_parameters
    warnings,                 \* the tokens reported as malformed, in order
    exitLog,                  \* exit code printed for each reaped replicate
    loopExit,                 \* how the scheduling loop was left
    checkpointing,            \* the checkpoint signaler is checkpointing
    workerInstruction,        \* what the WorkerManager was told at shutdown
    fileOpen,                 \* the simulation file (and lattice) is alive
    exception,                \* the exception in flight or caught by main
    exitCode,                 \* << >> while main runs, <<v>> once it returned v
    \* ---- ResourceAllocator
    reservedCores,            \* cores taken by reserveCpuCore()
    assignments,              \* replicate id -> cores assigned to it
    \* ---- ReplicateRunner threads
    runnerState,              \* replicate id -> state of its runner
    runnerExitCode,           \* replicate id -> exit code of its runner
    runnerCalls,              \* replicate id -> the master's calls on its runner
    \* ---- the signal handler thread
    globalAbort,              \* bool globalAbort
    \* ---- observation
    startsAfterAbort,         \* replicates started while globalAbort was set
    lastIteration,            \* how the last complete loop iteration ended
    sleepTime                 \* nanoseconds just slept (a local of the
                              \* loop body), 0 outside a sleep

vars == << functionOption, replicates, numberCpuCores, cpuCoresPerReplicate,
           shouldReserveOutputCore, cmdline_parameters, fileParameters,
           pc, maxSimulations, assignedSimulations, simulationStatusTable,
           runningReplicates, noopLoopCycles, simulationParameters, paramIt,
           warnings, exitLog, loopExit, checkpointing, workerInstruction,
           fileOpen, exception, exitCode, reservedCores, assignments,
           runnerState, runnerExitCode, runnerCalls, globalAbort,
           startsAfterAbort, lastIteration, sleepTime >>

inputVars == << functionOption, replicates, numberCpuCores,
                cpuCoresPerReplicate, shouldReserveOutputCore,
                cmdline_parameters, fileParameters >>

----------------------------------------------------------------------------
(* Program constants. *)

Pending == 0
Running == 1
Finished == 2
NoReplicate == -1
NoopThreshold == 1000
ReturnSuccess == 0
ReturnFailure == -1

(* Bounds of the model. *)

\* noopLoopCycles is only ever compared with thresholds; the model keeps its
\* value up to MaxNoop and represents every larger value by MaxNoop.
MaxNoop == 1001
\* replicate exit codes are drawn from 0..MaxExitCode
MaxExitCode == 1
\* command lines of the parameter specification hold at most MaxCmdLen tokens
MaxCmdLen == 3
\* of at most MaxTokenLen characters each
MaxTokenLen == 2
\* the idle cycles of the sleep specification go up to MaxIdleCycles, past
\* the last step of the sleep time (line 387)
MaxIdleCycles == 2102

----------------------------------------------------------------------------
(* Helpers. *)

Range(s) == { s[i] : i \in 1..Len(s) }

EmptyMap == [ x \in {} |-> 0 ]

RemoveAt(s, i) == SubSeq(s, 1, i - 1) \o SubSeq(s, i + 1, Len(s))

MinOf(S) == CHOOSE x \in S : \A y \in S : x <= y

----------------------------------------------------------------------------
(* Command-line parameter overrides, executeSimulation() lines 248-266. *)

Alphabet == { "k", "=" }

\* string::find("="): the position of the first '=', 0 standing for npos
FindEq(token) ==
    IF \E i \in 1..Len(token) : token[i] = "="
    THEN MinOf({ i \in 1..Len(token) : token[i] = "=" })
    ELSE 0

Malformed(token) == FindEq(token) = 0

\* a bug: the token is split at its last '=' (rfind)
InjectParameter_LastEq(params, token) ==
    LET eqpos == FindEq(token)
        last == CHOOSE i \in 0..Len(token) :
                   /\ i = 0 \/ token[i] = "="
                   /\ \A j \in (i + 1)..Len(token) : token[j] # "="
    IN  IF eqpos = 0
        THEN params
        ELSE (SubSeq(token, 1, last - 1) :> SubSeq(token, last + 1, Len(token)))
                @@ params

\* one iteration of the loop over cmdline_parameters
InjectParameter(params, token) ==
    LET eqpos == FindEq(token) IN
    IF eqpos = 0
    THEN params
    ELSE LET k == SubSeq(token, 1, eqpos - 1)
             v == SubSeq(token, eqpos + 1, Len(token))
         IN  (k :> v) @@ params

RECURSIVE InjectAll(_, _, _)
InjectAll(params, tokens, i) ==
    IF i > Len(tokens)
    THEN params
    ELSE InjectAll(InjectParameter(params, tokens[i]), tokens, i + 1)

MalformedTokens(tokens) == SelectSeq(tokens, Malformed)

----------------------------------------------------------------------------
(* ResourceAllocator (modelled from the specification). *)

AllCores == 0 .. (numberCpuCores - 1)

AssignedCores == UNION { assignments[r] : r \in DOMAIN assignments }

FreeCores == (AllCores \ reservedCores) \ AssignedCores

\* reserveCpuCore(): the core taken out of the usable pool
ReserveCpuCore == IF FreeCores = {} THEN {} ELSE { MinOf(FreeCores) }

\* getMaxSimultaneousReplicates(): floor(usableCores / coresPerReplicate)
GetMaxSimultaneousReplicates(reserved) ==
    (numberCpuCores - Cardinality(reserved)) \div cpuCoresPerReplicate

RECURSIVE FirstFit(_, _)
FirstFit(free, n) ==
    IF n = 0 \/ free = {}
    THEN {}
    ELSE { MinOf(free) } \cup FirstFit(free \ { MinOf(free) }, n - 1)

\* assignReplicate(replicate): first fit over the unassigned cores
AssignReplicate(replicate) ==
    (replicate :> FirstFit(FreeCores, cpuCoresPerReplicate)) @@ assignments

\* removeReplicate(replicate): a no-op for a replicate that holds nothing
RemoveReplicate(replicate) ==
    [ r \in (DOMAIN assignments) \ { replicate } |-> assignments[r] ]

----------------------------------------------------------------------------
(* Initial states: the inputs, before main() runs. *)

FunctionOptions == { "help", "version", "devices", "simulation", "unknown" }

\* The inputs other than functionOption are read by executeSimulation() only.
\* <<replicates, numberCpuCores, cpuCoresPerReplicate, shouldReserveOutputCore>>
Configurations ==
    { << <<0, 1, 2>>, 4, 2, FALSE >>,
      << <<1, 0>>,    3, 1, TRUE  >>,
      << <<0, 1>>,    2, 2, FALSE >>,
      << <<-1, 0>>,   2, 1, FALSE >>,
      << <<>>,        1, 1, FALSE >>,
      << <<0>>,       1, 1, TRUE  >> }

AllIds == UNION { Range(c[1]) : c \in Configurations }

DefaultCmdLine == << <<"k", "=">>, <<"k", "k">>, <<"=", "=">> >>

DefaultFileParameters == ( <<"k">> :> <<"k", "k">> )

MasterInit ==
    /\ maxSimulations = 0
    /\ assignedSimulations = 0
    /\ simulationStatusTable = EmptyMap
    /\ runningReplicates = << >>
    /\ noopLoopCycles = 0
    /\ simulationParameters = EmptyMap
    /\ paramIt = 1
    /\ warnings = << >>
    /\ exitLog = EmptyMap
    /\ loopExit = "none"
    /\ checkpointing = FALSE
    /\ workerInstruction = "none"
    /\ fileOpen = FALSE
    /\ exception = "none"
    /\ exitCode = << >>
    /\ reservedCores = {}
    /\ assignments = EmptyMap
    /\ runnerState = EmptyMap
    /\ runnerExitCode = EmptyMap
    /\ runnerCalls = EmptyMap
    /\ globalAbort = FALSE
    /\ startsAfterAbort = 0
    /\ lastIteration = "none"
    /\ sleepTime = 0

Init ==
    /\ functionOption \in FunctionOptions
    /\ \E c \in Configurations :
          /\ replicates = c[1]
          /\ numberCpuCores = c[2]
          /\ cpuCoresPerReplicate = c[3]
          /\ shouldReserveOutputCore = c[4]
    /\ functionOption # "simulation" => replicates = << >>
    /\ cmdline_parameters = DefaultCmdLine
    /\ fileParameters = DefaultFileParameters
    /\ pc = "main"
    /\ MasterInit

----------------------------------------------------------------------------
(* main(), lines 104-160. *)

masterVars == << maxSimulations, assignedSimulations, simulationStatusTable,
                 runningReplicates, noopLoopCycles, loopExit >>

paramVars == << simulationParameters, paramIt, warnings >>

shutdownVars == << checkpointing, workerInstruction, fileOpen >>

allocatorVars == << reservedCores, assignments >>

runnerVars == << runnerState, runnerExitCode, runnerCalls >>

\* help, version, devices: nothing of the scheduler runs
MainOther ==
    /\ pc = "main"
    /\ functionOption \in { "help", "version", "devices" }
    /\ pc' = "return"
    /\ UNCHANGED << inputVars, masterVars, paramVars, shutdownVars,
                    allocatorVars, runnerVars, exitLog, exception, exitCode,
                    globalAbort, startsAfterAbort, lastIteration, sleepTime >>

MainSimulation ==
    /\ pc = "main"
    /\ functionOption = "simulation"
    /\ pc' = "allocator"
    /\ UNCHANGED << inputVars, masterVars, paramVars, shutdownVars,
                    allocatorVars, runnerVars, exitLog, exception, exitCode,
                    globalAbort, startsAfterAbort, lastIteration, sleepTime >>

MainUnknown ==
    /\ pc = "main"
    /\ functionOption \notin { "help", "version", "devices", "simulation" }
    /\ exception' = "CommandLineArgumentException"
    /\ pc' = "catch"
    /\ UNCHANGED << inputVars, masterVars, paramVars, shutdownVars,
                    allocatorVars, runnerVars, exitLog, exitCode,
                    globalAbort, startsAfterAbort, lastIteration, sleepTime >>

\* a bug: a replicate's nonzero exit code becomes the exit code of the process
MainReturnValue_WorstExit(log) ==
    IF \E r \in DOMAIN log : log[r] # 0 THEN ReturnFailure ELSE ReturnSuccess

\* the value main returns once the chosen function returned normally
MainReturnValue(log) == ReturnSuccess

MainReturn ==
    /\ pc = "return"
    /\ exitCode' = << MainReturnValue(exitLog) >>
    /\ pc' = "exited"
    /\ UNCHANGED << inputVars, masterVars, paramVars, shutdownVars,
                    allocatorVars, runnerVars, exitLog, exception,
                    globalAbort, startsAfterAbort, lastIteration, sleepTime >>

\* every catch clause falls through to return -1
MainCatch ==
    /\ pc = "catch"
    /\ exitCode' = << ReturnFailure >>
    /\ pc' = "exited"
    /\ UNCHANGED << inputVars, masterVars, paramVars, shutdownVars,
                    allocatorVars, runnerVars, exitLog, exception,
                    globalAbort, startsAfterAbort, lastIteration, sleepTime >>

----------------------------------------------------------------------------
(* executeSimulation(), set-up: lines 182-310. *)

\* a bug: only a negative count is refused
InvalidConfiguration_Negative(max) == max < 0

\* line 236
InvalidConfiguration(max) == max = 0

\* lines 188-198: the resource allocator is constructed, nothing reserved
CreateAllocator ==
    /\ pc = "allocator"
    /\ reservedCores' = {}
    /\ assignments' = EmptyMap
    /\ pc' = "setup"
    /\ UNCHANGED << inputVars, masterVars, paramVars, shutdownVars,
                    runnerVars, exitLog, exception, exitCode, globalAbort,
                    startsAfterAbort, lastIteration, sleepTime >>

\* a bug: the bound is read before the output core is reserved
ReadMaxSimulations_BeforeReserve(reserved) == GetMaxSimultaneousReplicates({})

\* line 234: the one read of the allocator's bound
ReadMaxSimulations(reserved) == GetMaxSimultaneousReplicates(reserved)

\* lines 200-310
Setup ==
    /\ pc = "setup"
    /\ LET reserved == IF shouldReserveOutputCore THEN ReserveCpuCore ELSE {}
           max == ReadMaxSimulations(reserved)
       IN  /\ reservedCores' = reserved
           /\ checkpointing' = TRUE
           /\ fileOpen' = TRUE
           /\ maxSimulations' = max
           /\ IF InvalidConfiguration(max)
              THEN /\ exception' = "Exception"
                   /\ pc' = "catch"
                   /\ UNCHANGED << simulationStatusTable, paramVars >>
              ELSE /\ simulationStatusTable' =
                           [ r \in Range(replicates) |-> Pending ]
                   /\ simulationParameters' =
                           InjectAll(fileParameters, cmdline_parameters, 1)
                   /\ warnings' = MalformedTokens(cmdline_parameters)
                   /\ paramIt' = Len(cmdline_parameters) + 1
                   /\ pc' = "loop"
                   /\ UNCHANGED exception
    /\ UNCHANGED << inputVars, assignedSimulations, runningReplicates,
                    noopLoopCycles, loopExit, workerInstruction, assignments,
                    runnerVars, exitLog, exitCode, globalAbort,
                    startsAfterAbort, lastIteration, sleepTime >>

----------------------------------------------------------------------------
(* executeSimulation(), the scheduling loop: lines 312-406. *)

\* a bug: the loop does not test the abort flag
LoopCondition_NoAbortTest == TRUE

\* line 312
LoopCondition == ~globalAbort

\* lines 312-315: the loop condition holds, the cycle counter is incremented
LoopEnter ==
    /\ pc = "loop"
    /\ LoopCondition
    /\ noopLoopCycles' =
          IF noopLoopCycles < MaxNoop THEN noopLoopCycles + 1 ELSE MaxNoop
    /\ pc' = "reap"
    /\ sleepTime' = 0
    /\ UNCHANGED << inputVars, maxSimulations, assignedSimulations,
                    simulationStatusTable, runningReplicates, loopExit,
                    paramVars, shutdownVars, allocatorVars, runnerVars,
                    exitLog, exception, exitCode, globalAbort,
                    startsAfterAbort, lastIteration >>

\* line 312: the loop condition fails
LoopAbort ==
    /\ pc = "loop"
    /\ ~LoopCondition
    /\ loopExit' = "abort"
    /\ pc' = "shutdown"
    /\ sleepTime' = 0
    /\ UNCHANGED << inputVars, maxSimulations, assignedSimulations,
                    simulationStatusTable, runningReplicates, noopLoopCycles,
                    paramVars, shutdownVars, allocatorVars, runnerVars,
                    exitLog, exception, exitCode, globalAbort,
                    startsAfterAbort, lastIteration >>

\* hasReplicateFinished()
HasReplicateFinished(r) == runnerState[r] = "finished"

\* popNextFinishedReplicate(): the position in the list of the first runner
\* that reports finished, 0 standing for NULL
PopNextFinishedReplicate(running) ==
    IF \E i \in 1..Len(running) : HasReplicateFinished(running[i])
    THEN MinOf({ i \in 1..Len(running) : HasReplicateFinished(running[i]) })
    ELSE 0

\* a bug: the reaped replicate keeps its status
StatusAfterReap_StaysRunning == Running

\* line 335
StatusAfterReap == Finished

\* a bug: the runner is deleted before it is stopped
ReapCalls_DeleteFirst == << "delete", "stop" >>

\* lines 337-338: what the master does with the runner it popped
ReapCalls == << "stop", "delete" >>

\* one turn of the inner while loop, lines 319-340
Reap ==
    /\ pc = "reap"
    /\ LET i == PopNextFinishedReplicate(runningReplicates) IN
       /\ i # 0
       /\ LET r == runningReplicates[i] IN
          /\ runningReplicates' = RemoveAt(runningReplicates, i)
          /\ assignments' = RemoveReplicate(r)
          /\ exitLog' = (r :> runnerExitCode[r]) @@ exitLog
          /\ assignedSimulations' = assignedSimulations - 1
          /\ simulationStatusTable' =
                [ simulationStatusTable EXCEPT ![r] = StatusAfterReap ]
          /\ noopLoopCycles' = 0
          /\ runnerCalls' = [ runnerCalls EXCEPT ![r] = @ \o ReapCalls ]
          /\ runnerState' = [ runnerState EXCEPT ![r] = "deleted" ]
          /\ runnerExitCode' =
                [ x \in (DOMAIN runnerExitCode) \ { r } |-> runnerExitCode[x] ]
    /\ UNCHANGED << inputVars, pc, maxSimulations, loopExit, paramVars,
                    shutdownVars, reservedCores, exception, exitCode,
                    globalAbort, startsAfterAbort, lastIteration, sleepTime >>

\* popNextFinishedReplicate() returns NULL
ReapDone ==
    /\ pc = "reap"
    /\ PopNextFinishedReplicate(runningReplicates) = 0
    /\ pc' = "decide"
    /\ UNCHANGED << inputVars, masterVars, paramVars, shutdownVars,
                    allocatorVars, runnerVars, exitLog, exception, exitCode,
                    globalAbort, startsAfterAbort, lastIteration, sleepTime >>

\* a bug: the scan does not look at the Running replicates (line 356)
FindReplicate_IgnoresRunning(list, table, i) ==
    LET P == { j \in i..Len(list) : table[list[j]] = Pending } IN
    IF P = {}
    THEN [ replicate |-> NoReplicate, allFinished |-> TRUE ]
    ELSE [ replicate |-> list[CHOOSE j \in P : \A m \in P : j <= m],
           allFinished |-> FALSE ]

\* a bug: the scan does not stop at the first Pending replicate and so keeps
\* the last one
FindReplicate_LastPending(list, table, i) ==
    LET P == { j \in i..Len(list) : table[list[j]] = Pending } IN
    IF P = {}
    THEN [ replicate |-> NoReplicate,
           allFinished |-> \A j \in i..Len(list) : table[list[j]] = Finished ]
    ELSE [ replicate |-> list[CHOOSE j \in P : \A m \in P : m <= j],
           allFinished |-> FALSE ]

\* lines 346-357: the scan of the replicate list
RECURSIVE FindReplicate(_, _, _)
FindReplicate(list, table, i) ==
    IF i > Len(list)
    THEN [ replicate |-> NoReplicate, allFinished |-> TRUE ]
    ELSE IF table[list[i]] = Pending
         THEN [ replicate |-> list[i], allFinished |-> FALSE ]
         ELSE LET rest == FindReplicate(list, table, i + 1) IN
              [ replicate |-> rest.replicate,
                allFinished |-> rest.allFinished /\ table[list[i]] = Finished ]

Found == FindReplicate(replicates, simulationStatusTable, 1)

\* a bug: the sign of the id is not tested
CanStart_NoSignTest(replicate) == assignedSimulations < maxSimulations

\* a bug: the capacity test admits one replicate too many
CanStart_OffByOne(replicate) ==
    replicate >= 0 /\ assignedSimulations <= maxSimulations

\* line 363
CanStart(replicate) ==
    replicate >= 0 /\ assignedSimulations < maxSimulations

\* a bug: the threshold is a tenth of what it should be
IdleThresholdExceeded_Tenth(n) == n > NoopThreshold \div 10

\* line 343
IdleThresholdExceeded(n) == n > NoopThreshold

\* line 343 is false: the iteration ends without sleeping
Spin ==
    /\ pc = "decide"
    /\ ~IdleThresholdExceeded(noopLoopCycles)
    /\ pc' = "loop"
    /\ lastIteration' = "spin"
    /\ UNCHANGED << inputVars, masterVars, paramVars, shutdownVars,
                    allocatorVars, runnerVars, exitLog, exception, exitCode,
                    globalAbort, startsAfterAbort, sleepTime >>

\* line 360
AllFinishedBreak ==
    /\ pc = "decide"
    /\ IdleThresholdExceeded(noopLoopCycles)
    /\ Found.allFinished
    /\ loopExit' = "allFinished"
    /\ pc' = "shutdown"
    /\ UNCHANGED << inputVars, maxSimulations, assignedSimulations,
                    simulationStatusTable, runningReplicates, noopLoopCycles,
                    paramVars, shutdownVars, allocatorVars, runnerVars,
                    exitLog, exception, exitCode, globalAbort,
                    startsAfterAbort, lastIteration, sleepTime >>

\* a bug: a started replicate is marked Finished at once
StatusAfterStart_Finished == Finished

\* line 369
StatusAfterStart == Running

\* lines 363-381 and startReplicate(), lines 445-455
StartReplicate ==
    /\ pc = "decide"
    /\ IdleThresholdExceeded(noopLoopCycles)
    /\ ~Found.allFinished
    /\ CanStart(Found.replicate)
    /\ LET r == Found.replicate IN
       IF Cardinality(FreeCores) < cpuCoresPerReplicate
       THEN \* assignReplicate() fails
            /\ exception' = "Exception"
            /\ pc' = "catch"
            /\ UNCHANGED << assignments, runnerState, runnerCalls,
                            runningReplicates, assignedSimulations,
                            simulationStatusTable, startsAfterAbort,
                            lastIteration >>
       ELSE /\ assignments' = AssignReplicate(r)
            /\ runnerState' = (r :> "running") @@ runnerState
            /\ runnerCalls' = (r :> << "start" >>) @@ runnerCalls
            /\ lastIteration' = "start"
            /\ runningReplicates' = Append(runningReplicates, r)
            /\ assignedSimulations' = assignedSimulations + 1
            /\ simulationStatusTable' =
                  [ simulationStatusTable EXCEPT ![r] = StatusAfterStart ]
            /\ startsAfterAbort' =
                  IF globalAbort THEN startsAfterAbort + 1 ELSE startsAfterAbort
            /\ pc' = "loop"
            /\ UNCHANGED exception
    /\ UNCHANGED << inputVars, maxSimulations, noopLoopCycles, loopExit,
                    paramVars, shutdownVars, reservedCores, runnerExitCode,
                    exitLog, exitCode, globalAbort, sleepTime >>

\* a bug: the longest sleep is given up again for the shortest
SleepTime_ShortAgain(n) ==
    IF n > 2100 THEN 1000000
    ELSE IF n > 2000 THEN 10000000
    ELSE 1000000

\* lines 385-387: the nanoseconds to sleep
SleepTime(n) ==
    IF n > 2100 THEN 100000000
    ELSE IF n > 2000 THEN 10000000
    ELSE 1000000

\* lines 384-404: nothing to start, the master sleeps
Sleep ==
    /\ pc = "decide"
    /\ IdleThresholdExceeded(noopLoopCycles)
    /\ ~Found.allFinished
    /\ ~CanStart(Found.replicate)
    /\ pc' = "loop"
    /\ lastIteration' = "sleep"
    /\ sleepTime' = SleepTime(noopLoopCycles)
    /\ UNCHANGED << inputVars, masterVars, paramVars, shutdownVars,
                    allocatorVars, runnerVars, exitLog, exception, exitCode,
                    globalAbort, startsAfterAbort >>

----------------------------------------------------------------------------
(* executeSimulation(), shutdown: lines 408-443. *)

\* lines 408-411
StopCheckpointing ==
    /\ pc = "shutdown"
    /\ checkpointing' = FALSE
    /\ pc' = "workers"
    /\ UNCHANGED << inputVars, masterVars, paramVars, workerInstruction,
                    fileOpen, allocatorVars, runnerVars, exitLog, exception,
                    exitCode, globalAbort, startsAfterAbort,
                    lastIteration, sleepTime >>

\* a bug: the workers are always stopped gracefully
WorkerInstructionFor_AlwaysStop(abort) == "stopWorkers"

\* lines 415-426
WorkerInstructionFor(abort) == IF abort THEN "abortWorkers" ELSE "stopWorkers"

InstructWorkers ==
    /\ pc = "workers"
    /\ workerInstruction' = WorkerInstructionFor(globalAbort)
    /\ pc' = "cleanup"
    /\ UNCHANGED << inputVars, masterVars, paramVars, checkpointing,
                    fileOpen, allocatorVars, runnerVars, exitLog, exception,
                    exitCode, globalAbort, startsAfterAbort,
                    lastIteration, sleepTime >>

\* lines 428-443: the file is closed, the helper threads and the lattice freed
Cleanup ==
    /\ pc = "cleanup"
    /\ fileOpen' = FALSE
    /\ pc' = "return"
    /\ UNCHANGED << inputVars, masterVars, paramVars, checkpointing,
                    workerInstruction, allocatorVars, runnerVars, exitLog,
                    exception, exitCode, globalAbort, startsAfterAbort,
                    lastIteration, sleepTime >>

----------------------------------------------------------------------------
(* The other threads. *)

\* The signal handler thread lives from line 211 to line 434 (and to the end
\* of the process when an exception skips the cleanup).
SignalHandlerAlive ==
    pc \in { "loop", "reap", "decide", "shutdown", "workers", "cleanup",
             "catch" } /\ fileOpen

\* SignalHandler: a termination signal sets the flag, once
SignalAbort ==
    /\ SignalHandlerAlive
    /\ ~globalAbort
    /\ globalAbort' = TRUE
    /\ UNCHANGED << inputVars, pc, masterVars, paramVars, shutdownVars,
                    allocatorVars, runnerVars, exitLog, exception, exitCode,
                    startsAfterAbort, lastIteration, sleepTime >>

\* ReplicateRunner: the replicate's thread ends with exit code c
RunnerFinish(r, c) ==
    /\ pc # "exited"
    /\ r \in DOMAIN runnerState
    /\ runnerState[r] = "running"
    /\ runnerState' = [ runnerState EXCEPT ![r] = "finished" ]
    /\ runnerExitCode' = (r :> c) @@ runnerExitCode
    /\ UNCHANGED << inputVars, pc, masterVars, paramVars, shutdownVars,
                    allocatorVars, runnerCalls, exitLog, exception, exitCode,
                    globalAbort, startsAfterAbort, lastIteration, sleepTime >>

RunnerFinishes == \E r \in AllIds : \E c \in 0..MaxExitCode : RunnerFinish(r, c)

----------------------------------------------------------------------------

Master ==
    \/ MainOther
    \/ MainSimulation
    \/ MainUnknown
    \/ MainReturn
    \/ MainCatch
    \/ CreateAllocator
    \/ Setup
    \/ LoopEnter
    \/ LoopAbort
    \/ Reap
    \/ ReapDone
    \/ Spin
    \/ AllFinishedBreak
    \/ StartReplicate
    \/ Sleep
    \/ StopCheckpointing
    \/ InstructWorkers
    \/ Cleanup

Next == Master \/ SignalAbort \/ RunnerFinishes

Spec == Init /\ [][Next]_vars

----------------------------------------------------------------------------
(* The master with its scheduling assumptions: the master thread keeps     *)
(* running, and the thread of every started replicate ends.                *)

Fairness ==
    /\ WF_vars(Master)
    /\ \A r \in AllIds : WF_vars(\E c \in 0..MaxExitCode : RunnerFinish(r, c))

LiveSpec == Init /\ [][Next]_vars /\ Fairness

----------------------------------------------------------------------------
(* The loop over cmdline_parameters, lines 248-266, one token at a step,   *)
(* for every command line within the bounds.                               *)

Tokens == UNION { [ 1..n -> Alphabet ] : n \in 0..MaxTokenLen }

CmdLines == UNION { [ 1..n -> Tokens ] : n \in 0..MaxCmdLen }

ParamInit ==
    /\ functionOption = "simulation"
    /\ replicates = << >>
    /\ numberCpuCores = 1
    /\ cpuCoresPerReplicate = 1
    /\ shouldReserveOutputCore = FALSE
    /\ cmdline_parameters \in CmdLines
    /\ fileParameters \in { EmptyMap, DefaultFileParameters }
    /\ pc = "params"
    /\ MasterInit

\* line 249
GetParameters ==
    /\ pc = "params"
    /\ pc' = "inject"
    /\ simulationParameters' = fileParameters
    /\ UNCHANGED << inputVars, masterVars, paramIt, warnings, shutdownVars,
                    allocatorVars, runnerVars, exitLog, exception, exitCode,
                    globalAbort, startsAfterAbort, lastIteration, sleepTime >>

\* lines 255-258
WarnMalformed ==
    /\ pc = "inject"
    /\ paramIt <= Len(cmdline_parameters)
    /\ Malformed(cmdline_parameters[paramIt])
    /\ warnings' = Append(warnings, cmdline_parameters[paramIt])
    /\ simulationParameters' =
          InjectParameter(simulationParameters, cmdline_parameters[paramIt])
    /\ paramIt' = paramIt + 1
    /\ UNCHANGED << inputVars, pc, masterVars, shutdownVars, allocatorVars,
                    runnerVars, exitLog, exception, exitCode, globalAbort,
                    startsAfterAbort, lastIteration, sleepTime >>

\* lines 259-265
SetParameter ==
    /\ pc = "inject"
    /\ paramIt <= Len(cmdline_parameters)
    /\ ~Malformed(cmdline_parameters[paramIt])
    /\ simulationParameters' =
          InjectParameter(simulationParameters, cmdline_parameters[paramIt])
    /\ paramIt' = paramIt + 1
    /\ UNCHANGED << inputVars, pc, masterVars, warnings, shutdownVars,
                    allocatorVars, runnerVars, exitLog, exception, exitCode,
                    globalAbort, startsAfterAbort, lastIteration, sleepTime >>

\* line 252: the iterator reached the end, executeSimulation() goes on
InjectDone ==
    /\ pc = "inject"
    /\ ~(paramIt <= Len(cmdline_parameters))
    /\ pc' = "models"
    /\ UNCHANGED << inputVars, masterVars, paramVars, shutdownVars,
                    allocatorVars, runnerVars, exitLog, exception, exitCode,
                    globalAbort, startsAfterAbort, lastIteration, sleepTime >>

ParamNext == GetParameters \/ WarnMalformed \/ SetParameter \/ InjectDone

ParamSpec == ParamInit /\ [][ParamNext]_vars

----------------------------------------------------------------------------
(* Properties. *)

StatusOf(r) == simulationStatusTable[r]

TableIds == DOMAIN simulationStatusTable

RunningCount == Cardinality({ r \in TableIds : StatusOf(r) = Running })

PendingIds == { r \in TableIds : StatusOf(r) = Pending }

\* this step calls startReplicate()
StartAttempt ==
    /\ pc = "decide"
    /\ \/ Len(runningReplicates') > Len(runningReplicates)
       \/ exception' # exception

\* this step moves replicate r from Pending to Running
Starts(r) ==
    /\ r \in TableIds
    /\ StatusOf(r) = Pending
    /\ simulationStatusTable'[r] = Running

\* C1: at most maxSimulations replicates are Running at any time, and the
\* master calls startReplicate() only while fewer than maxSimulations are
\* Running, so that with maxSimulations Running a further replicate starts
\* only after a reap.
C1_ConcurrencyBound ==
    /\ [](RunningCount <= maxSimulations)
    /\ [][StartAttempt => RunningCount < maxSimulations]_vars

\* maxSimulations replicates are Running, one more is Pending, and the master
\* is at the point where it would start it
C1_Witness ==
    /\ pc = "decide"
    /\ noopLoopCycles > NoopThreshold
    /\ maxSimulations = 2
    /\ RunningCount = maxSimulations
    /\ PendingIds # {}

\* C2: every status starts at Pending and changes only from Pending to
\* Running and from Running to Finished.
C2_StatusTransitions ==
    /\ [][ simulationStatusTable = EmptyMap /\ simulationStatusTable' # EmptyMap
             => /\ DOMAIN simulationStatusTable' = Range(replicates)
                /\ \A r \in Range(replicates) :
                      simulationStatusTable'[r] = Pending ]_vars
    /\ [][ \A r \in TableIds :
             /\ r \in DOMAIN simulationStatusTable'
             /\ simulationStatusTable'[r] # StatusOf(r)
                  => \/ StatusOf(r) = Pending
                        /\ simulationStatusTable'[r] = Running
                     \/ StatusOf(r) = Running
                        /\ simulationStatusTable'[r] = Finished ]_vars

\* a replicate was reaped while another is Running and a third is Pending
C2_Witness ==
    /\ \E r \in TableIds : StatusOf(r) = Finished
    /\ \E r \in TableIds : StatusOf(r) = Running
    /\ \E r \in TableIds : StatusOf(r) = Pending

\* C3 as stated: no replicate is started once the abort flag is set.
C3_NoStartAfterAbort == startsAfterAbort = 0

\* C3, amended: once the abort flag is set at most one more replicate is
\* started (by the iteration that had passed its loop condition); the next
\* test of the loop condition leaves the loop, and nothing is started after.
C3_AtMostOneStartAfterAbort ==
    /\ [](startsAfterAbort <= 1)
    /\ [][ pc = "loop" /\ globalAbort => pc' \in { "loop", "shutdown" } ]_vars
    /\ [][ loopExit # "none"
             => simulationStatusTable' = simulationStatusTable ]_vars

\* the loop was left on the abort flag, one replicate was started after the
\* flag was set and another is Pending for good
C3_Witness ==
    /\ loopExit = "abort"
    /\ startsAfterAbort = 1
    /\ PendingIds # {}

\* C4: at shutdown checkpointing is stopped first, then the workers get one
\* instruction, abortWorkers when globalAbort is set and stopWorkers
\* otherwise; a loop ended by the abort flag is followed by abortWorkers.
C4_ShutdownInstruction ==
    /\ [](workerInstruction # "none" => ~checkpointing)
    /\ [][ workerInstruction' # workerInstruction
             => /\ workerInstruction = "none"
                /\ ~checkpointing
                /\ globalAbort => workerInstruction' = "abortWorkers"
                /\ ~globalAbort => workerInstruction' = "stopWorkers" ]_vars
    /\ [](loopExit = "abort" /\ workerInstruction # "none"
             => workerInstruction = "abortWorkers")
    /\ [](loopExit # "none" /\ pc \in { "cleanup", "return", "exited" }
             => workerInstruction # "none")

\* the process ended after an abort while a replicate was still executing:
\* the master did not wait for it
C4_Witness ==
    /\ pc = "exited"
    /\ loopExit = "abort"
    /\ workerInstruction = "abortWorkers"
    /\ \E r \in DOMAIN runnerState : runnerState[r] = "running"

AllFinished ==
    /\ DOMAIN simulationStatusTable = Range(replicates)
    /\ \A r \in Range(replicates) : StatusOf(r) = Finished

\* C5: once the scheduling loop is entered, if the abort flag is never set
\* (and, by the fairness of LiveSpec, the master keeps running and every
\* started replicate ends) every replicate becomes Finished and the loop is
\* left.
C5_AllFinishEventually ==
    (<>(pc = "loop") /\ []~globalAbort) => <>(AllFinished /\ loopExit # "none")

\* the same, for the replicate lists that hold no negative id
C5_NonNegativeIds ==
    (<>(pc = "loop") /\ []~globalAbort /\ \A r \in Range(replicates) : r >= 0)
        => <>(AllFinished /\ loopExit = "allFinished")

\* the position in the replicate list of the first Pending replicate
FirstPendingIndex ==
    MinOf({ i \in 1..Len(replicates) : StatusOf(replicates[i]) = Pending })

\* C6: replicates are started in the order of the replicate list: the one
\* started is the Pending one of lowest index, and no replicate is still
\* Pending when one that follows it in the list has been started.
C6_ListOrder ==
    /\ [][ \A r \in TableIds :
             Starts(r) => r = replicates[FirstPendingIndex] ]_vars
    /\ [](\A i, j \in 1..Len(replicates) :
             (/\ simulationStatusTable # EmptyMap
              /\ i < j
              /\ replicates[i] # replicates[j]
              /\ StatusOf(replicates[j]) # Pending)
                => StatusOf(replicates[i]) # Pending)

\* the list is not in ascending order; its first replicate was started and
\* the one after it, of lower id, is still Pending
C6_Witness ==
    /\ Len(replicates) = 2
    /\ replicates[2] < replicates[1]
    /\ simulationStatusTable # EmptyMap
    /\ StatusOf(replicates[1]) = Running
    /\ StatusOf(replicates[2]) = Pending

Ascending(list) == \A i, j \in 1..Len(list) : i < j => list[i] < list[j]

\* C7 as stated: the replicate started is the Pending one of lowest id,
\* whatever the order of the list.
C7_LowestId ==
    [][ \A r \in TableIds : Starts(r) => r = MinOf(PendingIds) ]_vars

\* C7, amended: the replicate started is the Pending one of lowest index in
\* the list, which is the Pending one of lowest id when the list is in
\* ascending order.
C7_LowestIdWhenAscending ==
    [][ \A r \in TableIds :
          Starts(r) /\ Ascending(replicates) => r = MinOf(PendingIds) ]_vars

\* an ascending list of three: the replicate of lowest id was reaped, the
\* next is Running and the last Pending
C7_Witness ==
    /\ Ascending(replicates)
    /\ Len(replicates) = 3
    /\ simulationStatusTable # EmptyMap
    /\ StatusOf(replicates[1]) = Finished
    /\ StatusOf(replicates[2]) = Running
    /\ StatusOf(replicates[3]) = Pending

\* executeSimulation() has read maxSimulations (line 234)
MaxSimulationsRead ==
    functionOption = "simulation" /\ pc \notin { "main", "allocator", "setup" }

\* C8: when getMaxSimultaneousReplicates() returns 0 an exception leaves
\* executeSimulation() before the loop: nothing is assigned, no runner
\* exists, no replicate is started and main returns a nonzero value.
C8_ZeroCapacityIsFatal ==
    (MaxSimulationsRead /\ maxSimulations = 0)
        => /\ pc \in { "catch", "exited" }
           /\ exception = "Exception"
           /\ loopExit = "none"
           /\ noopLoopCycles = 0
           /\ assignments = EmptyMap
           /\ runnerState = EmptyMap
           /\ runningReplicates = << >>
           /\ assignedSimulations = 0
           /\ \A r \in TableIds : StatusOf(r) = Pending
           /\ pc = "exited" => exitCode # << >> /\ exitCode[1] # 0

\* the process ended on a configuration with no room for a replicate
C8_Witness ==
    /\ MaxSimulationsRead
    /\ maxSimulations = 0
    /\ replicates # << >>
    /\ pc = "exited"
    /\ exitCode = << ReturnFailure >>

\* C9: main returns 0 when the loop ends with all replicates Finished,
\* whatever their exit codes, and returns nonzero exactly when an exception
\* was thrown; a reap with a nonzero exit code marks the replicate Finished,
\* releases its cores and lets the master go on.
C9_ExitCode ==
    /\ [](pc = "exited"
            => /\ exitCode # << >>
               /\ exitCode[1] # 0 <=> exception # "none"
               /\ loopExit = "allFinished" => AllFinished /\ exitCode[1] = 0)
    /\ [][ \A r \in DOMAIN exitLog' :
             r \notin DOMAIN exitLog
               => /\ StatusOf(r) = Running
                  /\ simulationStatusTable'[r] = Finished
                  /\ r \notin DOMAIN assignments'
                  /\ exception' = "none"
                  /\ pc' = "reap" ]_vars

\* the process ended with 0 after a replicate reported a nonzero exit code and
\* a replicate started after that one was reaped, too
C9_Witness ==
    /\ pc = "exited"
    /\ exitCode = << ReturnSuccess >>
    /\ loopExit = "allFinished"
    /\ Len(replicates) = 2
    /\ maxSimulations = 1
    /\ exitLog[replicates[1]] # 0

\* the well-formed tokens among the first n: a token is well-formed when it
\* is a key without '=', then '=', then a value
IsKeyOf(k, token) ==
    /\ Len(k) < Len(token)
    /\ k = SubSeq(token, 1, Len(k))
    /\ token[Len(k) + 1] = "="
    /\ \A i \in 1..Len(k) : k[i] # "="

HasKey(token) == \E n \in 0..Len(token) : IsKeyOf(SubSeq(token, 1, n), token)

KeyOf(token) ==
    SubSeq(token, 1, CHOOSE n \in 0..Len(token) :
                         IsKeyOf(SubSeq(token, 1, n), token))

ValueOf(token) == SubSeq(token, Len(KeyOf(token)) + 2, Len(token))

\* the positions up to n whose token sets key k
Overrides(k, n) ==
    { i \in 1..n : HasKey(cmdline_parameters[i])
                   /\ KeyOf(cmdline_parameters[i]) = k }

\* the parameter map after the first n tokens: the last override of a key
\* wins, a key without override keeps the value of the file
ExpectedParameters(n) ==
    LET keys == { KeyOf(cmdline_parameters[i]) :
                    i \in { j \in 1..n : HasKey(cmdline_parameters[j]) } }
    IN  [ k \in keys \cup DOMAIN fileParameters |->
            IF Overrides(k, n) = {}
            THEN fileParameters[k]
            ELSE ValueOf(cmdline_parameters[
                     CHOOSE i \in Overrides(k, n) :
                         \A j \in Overrides(k, n) : j <= i]) ]

\* C10: after each token the parameter map is the file's parameters with the
\* well-formed tokens so far applied in order (the last override of a key
\* wins); a token without '=' changes nothing but the warnings, and every
\* token is processed before executeSimulation() goes on.
C10_Overrides ==
    pc \in { "inject", "models" }
        => /\ simulationParameters = ExpectedParameters(paramIt - 1)
           /\ warnings = SelectSeq(SubSeq(cmdline_parameters, 1, paramIt - 1),
                                   LAMBDA t : ~HasKey(t))
           /\ pc = "models" => paramIt = Len(cmdline_parameters) + 1

\* a key set twice to different values, with a malformed token in between;
\* the file has parameters of its own and the loop is over
C10_Witness ==
    /\ pc = "models"
    /\ fileParameters # EmptyMap
    /\ Len(cmdline_parameters) = 3
    /\ HasKey(cmdline_parameters[1])
    /\ ~HasKey(cmdline_parameters[2])
    /\ HasKey(cmdline_parameters[3])
    /\ KeyOf(cmdline_parameters[1]) = KeyOf(cmdline_parameters[3])
    /\ ValueOf(cmdline_parameters[1]) # ValueOf(cmdline_parameters[3])
    /\ simulationParameters[KeyOf(cmdline_parameters[3])]
          = ValueOf(cmdline_parameters[3])
    /\ warnings = << cmdline_parameters[2] >>

----------------------------------------------------------------------------
(* The allocator's bound. *)

\* the allocator exists (line 198 is behind)
AllocatorConstructed ==
    functionOption = "simulation" /\ pc \notin { "main", "allocator" }

\* what getMaxSimultaneousReplicates() would return now
AllocatorMax == GetMaxSimultaneousReplicates(reservedCores)

\* C11 as stated: once the allocator is constructed the value of
\* getMaxSimultaneousReplicates() is the same after every later call of
\* reserveCpuCore(), assignReplicate() and removeReplicate().
C11_NeverChanges ==
    [][AllocatorConstructed => AllocatorMax' = AllocatorMax]_vars

\* C11, amended: reserveCpuCore() may lower the value, and the master calls
\* it only before it reads the bound; from the read on the value is changed
\* by no assignReplicate() and no removeReplicate(), so maxSimulations
\* equals the allocator's bound at every later point of the run.
C11_BoundStableAfterRead ==
    /\ [](MaxSimulationsRead => maxSimulations = AllocatorMax)
    /\ [][MaxSimulationsRead
            => /\ AllocatorMax' = AllocatorMax
               /\ reservedCores' = reservedCores
               /\ maxSimulations' = maxSimulations]_vars

\* the reserved core lowered the bound, and replicates were since assigned
\* and released
C11_Witness ==
    /\ MaxSimulationsRead
    /\ reservedCores # {}
    /\ AllocatorMax < GetMaxSimultaneousReplicates({})
    /\ maxSimulations = AllocatorMax
    /\ assignments # EmptyMap
    /\ \E r \in TableIds : StatusOf(r) = Finished

----------------------------------------------------------------------------
(* The shutdown and the runners. *)

\* lines 429-437 are behind: the file is closed and the lattice freed
FileClosed == loopExit # "none" /\ ~fileOpen

\* the thread of replicate r's runner is still executing
Executing(r) == r \in DOMAIN runnerState /\ runnerState[r] = "running"

\* C12: the file is closed and the lattice freed only after every started
\* replicate has stopped executing, whichever way the loop was left: in no
\* state is a runner still executing while the file is closed.
C12_ClosedAfterAllStopped ==
    FileClosed => \A r \in AllIds : ~Executing(r)

\* C12 on the path without abort: the loop is left with every replicate
\* reaped, so nothing executes when the file is closed.
C12_GracefulPath ==
    (FileClosed /\ loopExit = "allFinished") => \A r \in AllIds : ~Executing(r)

----------------------------------------------------------------------------
(* The assignments. *)

\* C13: assignReplicate() is called only when enough cores are free, so it
\* never fails; the replicates that hold an assignment are the Running ones,
\* each holds cpuCoresPerReplicate cores, no core is held by two of them,
\* and the assigned cores are usable cores: none is the reserved core and
\* they are no more than the cores left after the reservation.
C13_Assignments ==
    /\ [][StartAttempt => /\ Cardinality(FreeCores) >= cpuCoresPerReplicate
                          /\ exception' = exception]_vars
    /\ [](/\ DOMAIN assignments = { r \in TableIds : StatusOf(r) = Running }
          /\ \A r \in DOMAIN assignments :
                Cardinality(assignments[r]) = cpuCoresPerReplicate
          /\ \A r1, r2 \in DOMAIN assignments :
                r1 # r2 => assignments[r1] \cap assignments[r2] = {}
          /\ AssignedCores \subseteq AllCores \ reservedCores
          /\ Cardinality(AssignedCores)
                <= numberCpuCores - Cardinality(reservedCores))

\* two replicates hold all the usable cores after a third was reaped and
\* its cores were granted again
C13_Witness ==
    /\ Cardinality(DOMAIN assignments) = 2
    /\ cpuCoresPerReplicate = 2
    /\ FreeCores = {}
    /\ \E r \in TableIds : StatusOf(r) = Finished

\* C14: the master calls stop() on a runner only in the reap, on a runner
\* whose hasReplicateFinished() returned true (its thread is not executing
\* any more), once, and before it deletes that runner; a runner that was not
\* reaped is neither stopped nor deleted in the loop.
C14_StopOnlyFinished ==
    /\ [](\A r \in DOMAIN runnerCalls :
            /\ runnerCalls[r] \in { << "start" >>,
                                    << "start", "stop", "delete" >> }
            /\ StatusOf(r) = Finished <=> runnerCalls[r] # << "start" >>)
    /\ [][\A r \in DOMAIN runnerCalls :
            runnerCalls'[r] # runnerCalls[r]
                => /\ pc = "reap"
                   /\ HasReplicateFinished(r)
                   /\ ~Executing(r)
                   /\ r \in Range(runningReplicates)
                   /\ r \notin Range(runningReplicates')]_vars

\* one runner was stopped and deleted while another one is still executing
\* and was left alone
C14_Witness ==
    /\ pc = "decide"
    /\ \E r \in DOMAIN runnerCalls :
          runnerCalls[r] = << "start", "stop", "delete" >>
    /\ \E r \in DOMAIN runnerCalls :
          Executing(r) /\ runnerCalls[r] = << "start" >>

----------------------------------------------------------------------------
(* The idle-cycle counter. *)

\* this step reaps a replicate
Reaps == pc = "reap" /\ Len(runningReplicates') < Len(runningReplicates)

\* C15 as stated: a replicate is started only when the counter exceeds the
\* threshold, and none of the iterations before a start reaped or started a
\* replicate; in particular the iteration right before a start did not start
\* one.
C15_NothingJustStarted ==
    [][StartAttempt => /\ noopLoopCycles > NoopThreshold
                       /\ lastIteration # "start"]_vars

\* C15, amended: a replicate is started only when the counter exceeds the
\* threshold.  The counter is set to zero by every reap, grows by one per
\* iteration and by nothing else, and is left alone by a start: it counts
\* the iterations since the last reap, whatever was started in them.
C15_StartOnlyWhenIdle ==
    /\ [][StartAttempt => noopLoopCycles > NoopThreshold]_vars
    /\ [][Reaps => noopLoopCycles' = 0]_vars
    /\ [][noopLoopCycles' > noopLoopCycles
            => /\ pc = "loop"
               /\ pc' = "reap"
               /\ noopLoopCycles' = noopLoopCycles + 1]_vars
    /\ [][noopLoopCycles' < noopLoopCycles => Reaps]_vars
    /\ [][StartAttempt => noopLoopCycles' = noopLoopCycles]_vars

\* the last iteration started a replicate and this one is about to start
\* the next
C15_Witness ==
    /\ pc = "decide"
    /\ lastIteration = "start"
    /\ RunningCount >= 1
    /\ noopLoopCycles > NoopThreshold
    /\ ~Found.allFinished
    /\ CanStart(Found.replicate)

----------------------------------------------------------------------------
(* The decision at the end of an iteration, lines 343-405, from states of  *)
(* the loop with the idle-cycle counter anywhere up to MaxIdleCycles.      *)

\* nothing was started or reaped in the first n iterations
NothingStarted(n) ==
    /\ simulationStatusTable = [ r \in Range(replicates) |-> Pending ]
    /\ assignedSimulations = 0
    /\ runningReplicates = << >>
    /\ assignments = EmptyMap
    /\ runnerState = EmptyMap
    /\ runnerCalls = EmptyMap
    /\ lastIteration = IF n = 1 THEN "none"
                       ELSE IF n <= NoopThreshold + 1 THEN "spin"
                       ELSE "sleep"

\* iteration NoopThreshold + 1 started the first of two replicates, which
\* takes all the cores and is still executing in iteration n
FirstStarted(n) ==
    /\ simulationStatusTable =
          [ r \in Range(replicates) |->
                IF r = replicates[1] THEN Running ELSE Pending ]
    /\ assignedSimulations = 1
    /\ runningReplicates = << replicates[1] >>
    /\ assignments = (replicates[1] :> FirstFit(AllCores, cpuCoresPerReplicate))
    /\ runnerState = (replicates[1] :> "running")
    /\ runnerCalls = (replicates[1] :> << "start" >>)
    /\ lastIteration = IF n = NoopThreshold + 2 THEN "start" ELSE "sleep"

\* The master is at line 343 of iteration n.  Up to iteration
\* NoopThreshold + 1 nothing can have been started; later iterations are
\* reached with a first replicate that is never started (a negative id), or
\* with the first replicate executing and no room for the second.
SleepInit ==
    /\ functionOption = "simulation"
    /\ \E c \in Configurations :
          /\ ~c[4]
          /\ replicates = c[1]
          /\ numberCpuCores = c[2]
          /\ cpuCoresPerReplicate = c[3]
          /\ shouldReserveOutputCore = c[4]
    /\ cmdline_parameters = DefaultCmdLine
    /\ fileParameters = DefaultFileParameters
    /\ pc = "decide"
    /\ maxSimulations = ReadMaxSimulations({})
    /\ simulationParameters = InjectAll(fileParameters, cmdline_parameters, 1)
    /\ paramIt = Len(cmdline_parameters) + 1
    /\ warnings = MalformedTokens(cmdline_parameters)
    /\ exitLog = EmptyMap
    /\ loopExit = "none"
    /\ checkpointing = TRUE
    /\ workerInstruction = "none"
    /\ fileOpen = TRUE
    /\ exception = "none"
    /\ exitCode = << >>
    /\ reservedCores = {}
    /\ runnerExitCode = EmptyMap
    /\ globalAbort = FALSE
    /\ startsAfterAbort = 0
    /\ sleepTime = 0
    /\ \E n \in 1 .. MaxIdleCycles :
          /\ noopLoopCycles = n
          /\ \/ /\ n <= NoopThreshold + 1
                /\ NothingStarted(n)
             \/ /\ n > NoopThreshold + 1
                /\ replicates # << >>
                /\ replicates[1] < 0
                /\ NothingStarted(n)
             \/ /\ n > NoopThreshold + 1
                /\ Len(replicates) = 2
                /\ replicates[1] >= 0
                /\ maxSimulations = 1
                /\ FirstStarted(n)

SleepNext == Spin \/ AllFinishedBreak \/ StartReplicate \/ Sleep

SleepSpec == SleepInit /\ [][SleepNext]_vars

\* this step ends an iteration that started no replicate
EndsWithoutStart == pc = "decide" /\ pc' = "loop" /\ ~StartAttempt

\* C16 as stated: every iteration that does not start a replicate sleeps
\* before the next one begins, and the sleep never gets shorter as the
\* counter grows.
C16_AlwaysSleeps ==
    [][EndsWithoutStart
         => /\ lastIteration' = "sleep"
            /\ sleepTime' > 0
            /\ \A m \in 1 .. noopLoopCycles : SleepTime(m) <= sleepTime']_vars

\* C16, amended: an iteration that starts no replicate sleeps exactly when
\* the counter exceeds the threshold; up to the threshold it goes on at
\* once.  An iteration that starts a replicate does not sleep.  The sleep
\* chosen at a counter value is at least the sleep chosen at any smaller one.
C16_SleepsWhenIdle ==
    /\ [][EndsWithoutStart
            => IF noopLoopCycles > NoopThreshold
               THEN /\ lastIteration' = "sleep"
                    /\ sleepTime' > 0
                    /\ \A m \in 1 .. noopLoopCycles : SleepTime(m) <= sleepTime'
               ELSE /\ lastIteration' = "spin"
                    /\ sleepTime' = 0]_vars
    /\ [][StartAttempt => sleepTime' = 0 /\ lastIteration' # "sleep"]_vars

\* the master slept longer than it does just above the threshold, waiting
\* for the one replicate that executes
C16_Witness ==
    /\ pc = "loop"
    /\ lastIteration = "sleep"
    /\ RunningCount = 1
    /\ sleepTime = SleepTime(noopLoopCycles)
    /\ sleepTime > SleepTime(NoopThreshold + 1)

----------------------------------------------------------------------------
(* The ways out of the loop. *)

\* the master is in the scheduling loop, lines 312-406
InLoop == pc \in { "loop", "reap", "decide" }

\* C17: while the abort flag is unset the loop is not left as long as some
\* replicate is not Finished: the loop is left only at its condition, with
\* the flag set, or at line 360, with every replicate Finished.  A runner
\* that is still executing is never reaped, so its replicate stays Running
\* and keeps the master in the loop until the flag is set.
C17_LoopExit ==
    /\ [][(InLoop /\ ~InLoop') => (globalAbort \/ AllFinished)]_vars
    /\ [][(InLoop /\ ~InLoop' /\ ~AllFinished)
            => (pc = "loop" /\ pc' = "shutdown" /\ loopExit' = "abort")]_vars
    /\ [][\A r \in AllIds :
            Executing(r) => /\ r \in DOMAIN simulationStatusTable'
                            /\ simulationStatusTable'[r] = Running]_vars
    /\ []((\E r \in AllIds : Executing(r)) => loopExit # "allFinished")

\* nothing is left to start, one replicate still executes, and the master
\* has been idle past the threshold and sleeps, with the flag unset
C17_Witness ==
    /\ pc = "loop"
    /\ ~globalAbort
    /\ lastIteration = "sleep"
    /\ noopLoopCycles > NoopThreshold
    /\ PendingIds = {}
    /\ \E r \in TableIds : StatusOf(r) = Finished
    /\ \E r \in TableIds : Executing(r)

----------------------------------------------------------------------------
(* The bookkeeping. *)

\* C18: between the master's steps, the top of every iteration among them,
\* assignedSimulations is the length of runningReplicates, the number of
\* replicates with status Running and the number of ids that hold an
\* assignment, and the list holds just these ids.  An assignment is given
\* to a Pending replicate only and taken back only by the reap that makes
\* the replicate Finished, so each is released once.  After the exit with
\* all replicates Finished the list is empty and the counter is 0.
C18_Bookkeeping ==
    /\ [](/\ assignedSimulations = Len(runningReplicates)
          /\ assignedSimulations = RunningCount
          /\ assignedSimulations = Cardinality(DOMAIN assignments)
          /\ Range(runningReplicates) = DOMAIN assignments
          /\ DOMAIN assignments = { r \in TableIds : StatusOf(r) = Running })
    /\ [][\A r \in AllIds :
            /\ (r \in DOMAIN assignments /\ r \notin DOMAIN assignments')
                  => /\ Reaps
                     /\ StatusOf(r) = Running
                     /\ simulationStatusTable'[r] = Finished
                     /\ assignedSimulations' = assignedSimulations - 1
            /\ (r \notin DOMAIN assignments /\ r \in DOMAIN assignments')
                  => /\ Starts(r)
                     /\ assignedSimulations' = assignedSimulations + 1]_vars
    /\ [](loopExit = "allFinished"
            => /\ runningReplicates = << >>
               /\ assignedSimulations = 0
               /\ assignments = EmptyMap)

\* at the top of an iteration two replicates are counted, listed, Running
\* and assigned, after another one was reaped
C18_Witness ==
    /\ pc = "loop"
    /\ assignedSimulations = 2
    /\ Len(runningReplicates) = 2
    /\ Cardinality(DOMAIN exitLog) = 1
    /\ \A r \in DOMAIN exitLog : r \notin DOMAIN assignments

----------------------------------------------------------------------------
(* Negative replicate ids. *)

\* the first Pending replicate of the list has a negative id
Blocked ==
    /\ simulationStatusTable # EmptyMap
    /\ PendingIds # {}
    /\ replicates[FirstPendingIndex] < 0

\* C19: only a replicate with a non-negative id is started.  Once the first
\* Pending replicate of the list has a negative id this stays so: it and
\* every replicate after it in the list stay Pending, no start is attempted,
\* the exit with all replicates Finished is not taken, and the loop is left
\* only at its condition, with the abort flag set.
C19_NegativeIdNeverStarted ==
    /\ [][\A r \in AllIds : Starts(r) => r >= 0]_vars
    /\ [](Blocked
            => /\ \A i \in FirstPendingIndex .. Len(replicates) :
                     /\ StatusOf(replicates[i]) = Pending
                     /\ replicates[i] \notin DOMAIN runnerCalls
               /\ loopExit # "allFinished")
    /\ [][Blocked => /\ Blocked'
                     /\ ~StartAttempt
                     /\ \A r \in PendingIds : simulationStatusTable'[r] = Pending
                     /\ (InLoop /\ ~InLoop')
                           => (globalAbort /\ loopExit' = "abort")]_vars

\* the replicate with the negative id and the one behind it are Pending, the
\* master has been idle past the threshold with every core free, and the
\* loop was left by the abort flag
C19_Witness ==
    /\ Blocked
    /\ Len(replicates) = 2
    /\ PendingIds = Range(replicates)
    /\ noopLoopCycles > NoopThreshold
    /\ lastIteration = "sleep"
    /\ assignedSimulations < maxSimulations
    /\ loopExit = "abort"

----------------------------------------------------------------------------
(* The end of an aborted run. *)

\* C20: when the loop was left by the abort flag, executeSimulation() goes
\* through the shutdown and returns without an exception, and main returns
\* 0, whatever is still Running or Pending.  The runners that are still in
\* runningReplicates stay there: the master calls neither stop() nor delete
\* on them, their status stays Running and their assignments are kept.
C20_AbortReturnsNormally ==
    /\ [](loopExit = "abort"
            => /\ pc \in { "shutdown", "workers", "cleanup", "return",
                           "exited" }
               /\ exception = "none"
               /\ pc = "exited" => exitCode = << ReturnSuccess >>
               /\ \A r \in Range(runningReplicates) :
                     /\ runnerCalls[r] = << "start" >>
                     /\ runnerState[r] # "deleted"
                     /\ StatusOf(r) = Running
                     /\ r \in DOMAIN assignments)
    /\ [][loopExit = "abort"
            => UNCHANGED << runningReplicates, assignments, runnerCalls,
                            simulationStatusTable, assignedSimulations >>]_vars

\* the process ended after an abort with one replicate reaped with a nonzero
\* exit code, one still in the running list and one still Pending
C20_Witness ==
    /\ pc = "exited"
    /\ loopExit = "abort"
    /\ exitCode = << ReturnSuccess >>
    /\ \E r \in DOMAIN exitLog : exitLog[r] # 0
    /\ runningReplicates # << >>
    /\ \E r \in Range(runningReplicates) : r \in DOMAIN assignments
    /\ PendingIds # {}

====
